---- MODULE Spec2Model ----
(***************************************************************************)
(* A model of the REST-backed certmagic storage of caddy_rest_storage      *)
(* (src/rest.go): the transport (RestStorage.client), the codec (base64,   *)
(* JSON bodies, RFC3339 timestamps), the one-shot key/value operations and *)
(* the polling Lock / single-shot Unlock, run by callers against a remote  *)
(* service.                                                                *)
(*                                                                         *)
(* A call is split at its blocking points only: the HTTP exchange made by  *)
(* r.client (one step, atomic at the remote), the handler's reading of the *)
(* result (one step, the whole rest of the loop body) and the 5 second     *)
(* sleep of Lock (entered by the handler, left by Wake).                   *)
(***************************************************************************)
EXTENDS Integers, Sequences, FiniteSets, TLC

\* ------------------------------------------------------------------ bounds

\* Number of concurrent callers of the lock specification.
NumCallers == 3

\* Lock requests one Lock call may issue before the model stops following
\* it.
MaxPolls == 3

\* Longest value (in bytes) stored by the key/value specification.
MaxValLen == 2

\* Most lines of a Caddyfile block handed to UnmarshalCaddyfile.
MaxDirectives == 2

\* time.Sleep(5 * time.Second), in seconds.
SleepSeconds == 5

\* ------------------------------------------------------------------ codec

\* base64.StdEncoding: the alphabet and the padding character.
B64Chars ==
  << "A","B","C","D","E","F","G","H","I","J","K","L","M","N","O","P",
     "Q","R","S","T","U","V","W","X","Y","Z","a","b","c","d","e","f",
     "g","h","i","j","k","l","m","n","o","p","q","r","s","t","u","v",
     "w","x","y","z","0","1","2","3","4","5","6","7","8","9","+","/" >>

B64Pad == "="

\* enc.encode[i] for a six bit group i.
B64Char(i) == B64Chars[i + 1]

\* enc.decodeMap: the six bit group of an alphabet character, 255 otherwise.
B64Index(ch) ==
  IF \E i \in 1..64 : B64Chars[i] = ch
  THEN (CHOOSE i \in 1..64 : B64Chars[i] = ch) - 1
  ELSE 255

\* A variant of the encoder that leaves the padding out (RawStdEncoding).
RECURSIVE B64EncodeNoPad(_)
B64EncodeNoPad(b) ==
  IF Len(b) = 0 THEN << >>
  ELSE IF Len(b) >= 3
  THEN LET v == b[1] * 65536 + b[2] * 256 + b[3]
       IN  << B64Char(v \div 262144), B64Char((v \div 4096) % 64),
              B64Char((v \div 64) % 64), B64Char(v % 64) >>
           \o B64EncodeNoPad(SubSeq(b, 4, Len(b)))
  ELSE IF Len(b) = 2
  THEN LET v == b[1] * 65536 + b[2] * 256
       IN  << B64Char(v \div 262144), B64Char((v \div 4096) % 64),
              B64Char((v \div 64) % 64) >>
  ELSE LET v == b[1] * 65536
       IN  << B64Char(v \div 262144), B64Char((v \div 4096) % 64) >>

\* base64.StdEncoding.EncodeToString: three bytes become four characters,
\* a last group of one or two bytes is padded to four characters.
RECURSIVE B64Encode(_)
B64Encode(b) ==
  IF Len(b) = 0 THEN << >>
  ELSE IF Len(b) >= 3
  THEN LET v == b[1] * 65536 + b[2] * 256 + b[3]
       IN  << B64Char(v \div 262144), B64Char((v \div 4096) % 64),
              B64Char((v \div 64) % 64), B64Char(v % 64) >>
           \o B64Encode(SubSeq(b, 4, Len(b)))
  ELSE IF Len(b) = 2
  THEN LET v == b[1] * 65536 + b[2] * 256
       IN  << B64Char(v \div 262144), B64Char((v \div 4096) % 64),
              B64Char((v \div 64) % 64), B64Pad >>
  ELSE LET v == b[1] * 65536
       IN  << B64Char(v \div 262144), B64Char((v \div 4096) % 64),
              B64Pad, B64Pad >>

\* The decoder skips "\r" and "\n" wherever they stand.
RECURSIVE B64StripNewlines(_)
B64StripNewlines(s) ==
  IF Len(s) = 0 THEN << >>
  ELSE IF Head(s) \in {"\n", "\r"} THEN B64StripNewlines(Tail(s))
  ELSE << Head(s) >> \o B64StripNewlines(Tail(s))

\* decodeQuantum, quantum after quantum, on text without newlines: four
\* alphabet characters give three bytes; "xx==" gives one byte and "xxx="
\* two, and only as the last quantum; anything else is corrupt input.  The
\* encoding is not strict: the unused low bits of a padded quantum are
\* dropped unchecked.
RECURSIVE B64DecodeQuanta(_)
B64DecodeQuanta(s) ==
  IF Len(s) = 0 THEN [ok |-> TRUE, bytes |-> << >>]
  ELSE IF Len(s) < 4 THEN [ok |-> FALSE, bytes |-> << >>]
  ELSE
    LET i1 == B64Index(s[1])
        i2 == B64Index(s[2])
        i3 == B64Index(s[3])
        i4 == B64Index(s[4])
        rest == SubSeq(s, 5, Len(s))
        bad == [ok |-> FALSE, bytes |-> << >>]
    IN  IF i1 = 255 \/ i2 = 255 THEN bad
        ELSE IF i3 = 255
        THEN IF s[3] = B64Pad /\ s[4] = B64Pad /\ Len(rest) = 0
             THEN LET v == i1 * 262144 + i2 * 4096
                  IN  [ok |-> TRUE, bytes |-> << v \div 65536 >>]
             ELSE bad
        ELSE IF i4 = 255
        THEN IF s[4] = B64Pad /\ Len(rest) = 0
             THEN LET v == i1 * 262144 + i2 * 4096 + i3 * 64
                  IN  [ok |-> TRUE,
                       bytes |-> << v \div 65536, (v \div 256) % 256 >>]
             ELSE bad
        ELSE LET v == i1 * 262144 + i2 * 4096 + i3 * 64 + i4
                 r == B64DecodeQuanta(rest)
             IN  IF r.ok
                 THEN [ok |-> TRUE,
                       bytes |-> << v \div 65536, (v \div 256) % 256, v % 256 >>
                                 \o r.bytes]
                 ELSE bad

\* base64.StdEncoding.DecodeString.
B64Decode(s) == B64DecodeQuanta(B64StripNewlines(s))

\* time.Parse(time.RFC3339, s).  Text is a sequence of characters.
Digits == << "0","1","2","3","4","5","6","7","8","9" >>

IsDigit(ch) == \E i \in 1..10 : Digits[i] = ch

DigitVal(ch) == (CHOOSE i \in 1..10 : Digits[i] = ch) - 1

RECURSIVE DecimalValue(_)
DecimalValue(s) ==
  IF Len(s) = 0 THEN 0
  ELSE DecimalValue(SubSeq(s, 1, Len(s) - 1)) * 10 + DigitVal(s[Len(s)])

\* parseUint of parseRFC3339: decimal digits only, and a value within lo..hi.
ParseUint(s, lo, hi) ==
  IF \A i \in 1..Len(s) : IsDigit(s[i])
  THEN LET x == DecimalValue(s)
       IN  IF x < lo \/ hi < x THEN [ok |-> FALSE, x |-> lo]
           ELSE [ok |-> TRUE, x |-> x]
  ELSE [ok |-> FALSE, x |-> lo]

IsLeap(year) == year % 4 = 0 /\ (year % 100 # 0 \/ year % 400 = 0)

DaysIn(month, year) ==
  IF month = 2 THEN (IF IsLeap(year) THEN 29 ELSE 28)
  ELSE IF month \in {4, 6, 9, 11} THEN 30 ELSE 31

\* The zero time.Time.
ZeroTime ==
  [year |-> 1, month |-> 1, day |-> 1, hour |-> 0, min |-> 0, sec |-> 0,
   frac |-> << >>, zone |-> 0]

\* The length of the run of digits of s that starts at position i.
RECURSIVE DigitRun(_, _)
DigitRun(s, i) ==
  IF i <= Len(s) /\ IsDigit(s[i]) THEN 1 + DigitRun(s, i + 1) ELSE 0

\* time.Parse with the layout "2006-01-02T15:04:05Z07:00": date and time
\* of fixed width, an optional fraction, then "Z" or a +hh:mm / -hh:mm
\* offset.  zone is the offset in minutes.
ParseRFC3339(s) ==
  LET bad == [ok |-> FALSE, t |-> ZeroTime]
  IN
  IF Len(s) < 19 THEN bad
  ELSE
    LET year  == ParseUint(SubSeq(s, 1, 4), 0, 9999)
        month == ParseUint(SubSeq(s, 6, 7), 1, 12)
        day   == ParseUint(SubSeq(s, 9, 10), 1, DaysIn(month.x, year.x))
        hour  == ParseUint(SubSeq(s, 12, 13), 0, 23)
        min   == ParseUint(SubSeq(s, 15, 16), 0, 59)
        sec   == ParseUint(SubSeq(s, 18, 19), 0, 59)
        nfrac == IF Len(s) >= 21 /\ s[20] = "." /\ IsDigit(s[21])
                 THEN 1 + DigitRun(s, 21) ELSE 0
        frac  == IF nfrac = 0 THEN << >> ELSE SubSeq(s, 21, 19 + nfrac)
        z     == SubSeq(s, 20 + nfrac, Len(s))
    IN
    IF ~ (year.ok /\ month.ok /\ day.ok /\ hour.ok /\ min.ok /\ sec.ok)
       \/ ~ (s[5] = "-" /\ s[8] = "-" /\ s[11] = "T" /\ s[14] = ":" /\ s[17] = ":")
    THEN bad
    ELSE
      LET t == [year |-> year.x, month |-> month.x, day |-> day.x,
                hour |-> hour.x, min |-> min.x, sec |-> sec.x,
                frac |-> frac, zone |-> 0]
      IN
      IF z = << "Z" >> THEN [ok |-> TRUE, t |-> t]
      ELSE IF Len(z) # 6 THEN bad
      ELSE
        LET hr == ParseUint(SubSeq(z, 2, 3), 0, 23)
            mm == ParseUint(SubSeq(z, 5, 6), 0, 59)
        IN
        IF ~ (hr.ok /\ mm.ok) \/ ~ (z[1] \in {"-", "+"} /\ z[4] = ":")
        THEN bad
        ELSE [ok |-> TRUE,
              t |-> [t EXCEPT !.zone = IF z[1] = "-" THEN 0 - (hr.x * 60 + mm.x)
                                       ELSE hr.x * 60 + mm.x]]

\* ------------------------------------------------------------------- JSON

\* JSON values carry their type; an object is a function from field names.
JString(s) == [t |-> "string", v |-> s]
JBool(b)   == [t |-> "bool", v |-> b]
JNumber(n) == [t |-> "number", v |-> n]
JArray(a)  == [t |-> "array", v |-> a]

\* A body: a JSON object, a JSON object followed by text that is no JSON
\* (as in {"keys":[]}@@), text that does not begin with a JSON value, or
\* nothing at all.
JsonObject(obj) == [json |-> "object", obj |-> obj]
JsonObjectThenText(obj) == [json |-> "objectThenText", obj |-> obj]
BodyMalformed   == [json |-> "malformed", obj |-> << >>]
BodyEmpty       == [json |-> "empty", obj |-> << >>]

\* json.NewDecoder(body).Decode(&v) for a struct v described by schema
\* (field name -> type and zero value).  Decode reads the first JSON value
\* of the stream and leaves what follows it unread: an error unless the body
\* begins with a JSON object whose fields of the struct have the struct's
\* types; a field the body lacks keeps its zero value, a field the struct
\* lacks is ignored.
JsonDecode(body, schema) ==
  LET zero == [f \in DOMAIN schema |-> schema[f].zero]
  IN
  IF body.json \notin {"object", "objectThenText"}
  THEN [ok |-> FALSE, val |-> zero]
  ELSE IF \E f \in DOMAIN schema \cap DOMAIN body.obj :
            body.obj[f].t # schema[f].t
  THEN [ok |-> FALSE, val |-> zero]
  ELSE [ok |-> TRUE,
        val |-> [f \in DOMAIN schema |->
                   IF f \in DOMAIN body.obj THEN body.obj[f].v
                   ELSE schema[f].zero]]

\* ----------------------------------------------------------------- errors

\* A Go error value: nil, an error of the transport passed on verbatim
\* (kind "transport", or "canceled" for the context's error), the sentinel
\* fs.ErrNotExist, an error of a decoder, or fmt.Errorf(text + "%v", code).
ErrNil        == [kind |-> "nil", text |-> "", code |-> 0]
ErrTransport  == [kind |-> "transport", text |-> "", code |-> 0]
ErrCanceled   == [kind |-> "canceled", text |-> "", code |-> 0]
ErrNotExist   == [kind |-> "notExist", text |-> "", code |-> 0]
ErrDecode     == [kind |-> "decode", text |-> "", code |-> 0]
Errorf(text, code) == [kind |-> "errorf", text |-> text, code |-> code]

errorsNew(text) == [kind |-> "new", text |-> text, code |-> 0]

\* ---------------------------------------------------------- configuration

\* Configuration text is a sequence of characters; a word that is never
\* taken apart (a directive's name, a placeholder's name, a path) may stand
\* as one element.

\* strings.HasSuffix.
HasSuffix(s, suffix) ==
  /\ Len(s) >= Len(suffix)
  /\ SubSeq(s, Len(s) - Len(suffix) + 1, Len(s)) = suffix

\* The placeholders caddy.NewReplacer() knows, here the one of them that
\* the configurations of the model use; every other name is unknown.
ReplacerGet(key) ==
  IF key = << "system.slash" >> THEN [found |-> TRUE, val |-> << "/" >>]
  ELSE [found |-> FALSE, val |-> << >>]

\* repl.ReplaceAll(input, empty): every {name} gives way to the value of
\* name, or to empty when the name is unknown or its value is empty; an
\* opening brace that is never closed stays.  (Escaped braces are left out.)
RECURSIVE ReplaceAll(_, _)
ReplaceAll(input, empty) ==
  IF Len(input) = 0 THEN << >>
  ELSE IF Head(input) = "{" /\ \E j \in 2 .. Len(input) : input[j] = "}"
  THEN LET end == CHOOSE j \in 2 .. Len(input) :
                    input[j] = "}" /\ \A i \in 2 .. j - 1 : input[i] # "}"
           got == ReplacerGet(SubSeq(input, 2, end - 1))
       IN  (IF got.val = << >> THEN empty ELSE got.val)
             \o ReplaceAll(SubSeq(input, end + 1, Len(input)), empty)
  ELSE << Head(input) >> \o ReplaceAll(Tail(input), empty)

\* What Provision makes of the fields of r.
Provisioned(r) ==
  [Endpoint |-> IF ~ HasSuffix(r.Endpoint, << "/" >>)
                THEN r.Endpoint \o << "/" >> ELSE r.Endpoint,
   ApiKey |-> ReplaceAll(r.ApiKey, << >>)]

\* What Validate returns for r.
Validated(r) ==
  IF r.Endpoint = << >> THEN errorsNew("endpoint must be specified")
  ELSE IF r.ApiKey = << >> THEN errorsNew("api key must be defined")
  ELSE ErrNil

\* The tokens of a Caddyfile block (a sequence of lines, each a sequence of
\* tokens), each with the number of its line, the first line being line n.
RECURSIVE Tokens(_, _)
Tokens(file, n) ==
  IF Len(file) = 0 THEN << >>
  ELSE [i \in 1 .. Len(Head(file)) |-> [text |-> Head(file)[i], line |-> n]]
         \o Tokens(Tail(file), n + 1)

\* The loop of UnmarshalCaddyfile with the dispenser's cursor on token
\* cursor of toks (0: before the first).  d.Next() moves to the next token,
\* whatever its line; d.Args(&value) takes the token after it when that is
\* on the same line, and fails otherwise.  Of the cases of the switch only
\* "endpoint" and "ApiKey" have a body: a Go case does not fall through.
RECURSIVE UnmarshalLoop(_, _, _)
UnmarshalLoop(r, toks, cursor) ==
  IF cursor + 1 > Len(toks) THEN r
  ELSE
    LET cur == cursor + 1
        key == toks[cur].text
        hasArg == cur + 1 <= Len(toks) /\ toks[cur + 1].line = toks[cur].line
    IN  IF ~ hasArg THEN UnmarshalLoop(r, toks, cur)
        ELSE
          LET value == toks[cur + 1].text
          IN  UnmarshalLoop(
                CASE key = << "endpoint" >> -> [r EXCEPT !.Endpoint = value]
                  [] key = << "apikey" >> -> r
                  [] key = << "apiKey" >> -> r
                  [] key = << "ApiKey" >> -> [r EXCEPT !.ApiKey = value]
                  [] OTHER -> r,
                toks, cur + 1)

\* What UnmarshalCaddyfile makes of r given the block file.
Unmarshalled(r, file) == UnmarshalLoop(r, Tokens(file, 1), 0)

\* net/url: the characters url.Parse rejects anywhere, and the letters.
IsControl(ch) == ch \in {"\n", "\r", "\t"}

Letters == {B64Chars[i] : i \in 1 .. 52}

\* getScheme of net/url from position i of u on: the length of the scheme
\* (0: none), or -1 for "missing protocol scheme".
RECURSIVE GetScheme(_, _)
GetScheme(u, i) ==
  IF i > Len(u) THEN 0
  ELSE IF u[i] \in Letters THEN GetScheme(u, i + 1)
  ELSE IF IsDigit(u[i]) \/ u[i] \in {"+", "-", "."}
  THEN (IF i = 1 THEN 0 ELSE GetScheme(u, i + 1))
  ELSE IF u[i] = ":" THEN (IF i = 1 THEN -1 ELSE i - 1)
  ELSE 0

\* url.Parse, as far as the endpoints of the model go: it fails on a
\* control character, on a leading colon, and on a colon in the first
\* segment of a path that has no scheme before it and no leading slash.
\* (Its checks of the host, the port and the escapes are left out: the
\* endpoints of the model pass them.)
UrlParse(u) ==
  LET n == GetScheme(u, 1)
      rest == IF n > 0 THEN SubSeq(u, n + 2, Len(u)) ELSE u
      firstSlash == IF \E i \in 1 .. Len(rest) : rest[i] = "/"
                    THEN CHOOSE i \in 1 .. Len(rest) :
                           rest[i] = "/" /\ \A j \in 1 .. i - 1 : rest[j] # "/"
                    ELSE Len(rest) + 1
  IN  IF \E i \in 1 .. Len(u) : IsControl(u[i]) THEN [ok |-> FALSE]
      ELSE IF n < 0 THEN [ok |-> FALSE]
      ELSE IF n = 0 /\ firstSlash # 1
                    /\ \E i \in 1 .. firstSlash - 1 : rest[i] = ":"
      THEN [ok |-> FALSE]
      ELSE [ok |-> TRUE]

\* http.NewRequestWithContext(ctx, method, endpoint + path, body): the
\* methods of the operations are valid and the context is not nil, so it
\* fails, and returns a nil request, exactly when the URL does not parse.
NewRequestWithContext(endpoint, path) == UrlParse(endpoint \o << path >>)

\* ------------------------------------------------------------- transport

\* What r.client hands back: a response (status and body) or an error.
Response(status, body) == [err |-> ErrNil, status |-> status, body |-> body]
Failure(err)           == [err |-> err, status |-> 0, body |-> BodyEmpty]
NoResult               == [err |-> ErrNil, status |-> 0, body |-> BodyEmpty]

\* The request r.client builds: the payload marshalled as a JSON object
\* (json.Marshal does not fail on the request structs, which hold strings
\* and booleans only), the two headers, and the path appended to the
\* endpoint, taken here to be a provisioned, well-formed URL.
Request(method, path, payload) ==
  [method |-> method, path |-> path, payload |-> payload,
   headers |-> {"Content-Type", "x-api-key"}]

NoRequest == Request("", "", << >>)

\* A transport that sends the request whatever the state of the context.
ClientAbortsNever(ctxIsDone) == FALSE

\* httpClient.Do on a request built with NewRequestWithContext: when the
\* context is done already, Do returns the context's error and nothing is
\* sent.
ClientAborts(ctxIsDone) == ctxIsDone

\* ------------------------------------------------- the operations' requests

LockRequest(key)   == Request("POST", "lock", [key |-> JString(key)])
UnlockRequest(key) == Request("POST", "unlock", [key |-> JString(key)])
LoadRequest(key)   == Request("POST", "load", [key |-> JString(key)])
DeleteRequest(key) == Request("DELETE", "delete", [key |-> JString(key)])
ExistsRequest(key) == Request("POST", "exists", [key |-> JString(key)])
StatRequest(key)   == Request("POST", "stat", [key |-> JString(key)])

\* A Store that sends the value unpadded.
StoreRequestNoPad(key, value) ==
  Request("POST", "store",
          [key |-> JString(key), value |-> JString(B64EncodeNoPad(value))])

StoreRequest(key, value) ==
  Request("POST", "store",
          [key |-> JString(key), value |-> JString(B64Encode(value))])

ListRequest(prefix, recursive) ==
  Request("POST", "list",
          [prefix |-> JString(prefix), recursive |-> JBool(recursive)])

\* ---------------------------------- the operations' reading of the result

\* What a handler does with the transport's result r: return ret (an error
\* and a value) to its caller, or sleep and call the transport again.
Return(err, val) == [next |-> "return", err |-> err, val |-> val]
Retry            == [next |-> "retry", err |-> ErrNil, val |-> << >>]

\* The zero certmagic.KeyInfo.
ZeroKeyInfo ==
  [Key |-> "", Modified |-> ZeroTime, Size |-> 0, IsTerminal |-> FALSE]

\* The destination structs of the decoders.
LoadResponse   == [value |-> [t |-> "string", zero |-> << >>]]
ExistsResponse == [exists |-> [t |-> "bool", zero |-> FALSE]]
ListResponse   == [keys |-> [t |-> "array", zero |-> << >>]]
StatResponse   ==
  [key |-> [t |-> "string", zero |-> ""],
   modified |-> [t |-> "string", zero |-> << >>],
   size |-> [t |-> "number", zero |-> 0],
   isTerminal |-> [t |-> "bool", zero |-> FALSE]]

\* A Lock that takes "already locked" for success.
LockOutcomeLenient(r) ==
  IF r.err # ErrNil THEN Return(r.err, << >>)
  ELSE IF r.status = 201 \/ r.status = 423 THEN Return(ErrNil, << >>)
  ELSE IF r.status = 412 THEN Retry
  ELSE Return(Errorf("Unknown status code received: ", r.status), << >>)

\* A Lock that gives up on 412.
LockOutcomeStrict(r) ==
  IF r.err # ErrNil THEN Return(r.err, << >>)
  ELSE IF r.status = 201 THEN Return(ErrNil, << >>)
  ELSE IF r.status = 423 THEN Retry
  ELSE Return(Errorf("Unknown status code received: ", r.status), << >>)

\* A Lock that retries on every status but 201.
LockOutcomeRetryAll(r) ==
  IF r.err # ErrNil THEN Return(r.err, << >>)
  ELSE IF r.status = 201 THEN Return(ErrNil, << >>)
  ELSE Retry

\* A Lock that drops the transport's error and reports success.
LockOutcomeIgnoreError(r) ==
  IF r.err # ErrNil THEN Return(ErrNil, << >>)
  ELSE IF r.status = 201 THEN Return(ErrNil, << >>)
  ELSE IF r.status = 423 THEN Retry
  ELSE IF r.status = 412 THEN Retry
  ELSE Return(Errorf("Unknown status code received: ", r.status), << >>)

\* A Lock that does not wait for a locked key but reports it.
LockOutcomeNoWait(r) ==
  IF r.err # ErrNil THEN Return(r.err, << >>)
  ELSE IF r.status = 201 THEN Return(ErrNil, << >>)
  ELSE IF r.status = 412 THEN Retry
  ELSE Return(Errorf("Unknown status code received: ", r.status), << >>)

\* A Lock that takes 200, not 201, for success.
LockOutcomeWants200(r) ==
  IF r.err # ErrNil THEN Return(r.err, << >>)
  ELSE IF r.status = 200 THEN Return(ErrNil, << >>)
  ELSE IF r.status = 423 THEN Retry
  ELSE IF r.status = 412 THEN Retry
  ELSE Return(Errorf("Unknown status code received: ", r.status), << >>)

\* Lock's loop body after the transport call.
LockOutcome(r) ==
  IF r.err # ErrNil THEN Return(r.err, << >>)
  ELSE IF r.status = 201 THEN Return(ErrNil, << >>)
  ELSE IF r.status = 423 THEN Retry
  ELSE IF r.status = 412 THEN Retry
  ELSE Return(Errorf("Unknown status code received: ", r.status), << >>)

\* An Unlock that takes 404, a key not locked, for success.
UnlockOutcomeIdempotent(r) ==
  IF r.err # ErrNil THEN Return(r.err, << >>)
  ELSE IF r.status # 204 /\ r.status # 404
  THEN Return(Errorf("unknown status code received: ", r.status), << >>)
  ELSE Return(ErrNil, << >>)

UnlockOutcome(r) ==
  IF r.err # ErrNil THEN Return(r.err, << >>)
  ELSE IF r.status # 204
  THEN Return(Errorf("unknown status code received: ", r.status), << >>)
  ELSE Return(ErrNil, << >>)

\* A Store that tries again after a server error.
StoreOutcomeRetry(r) ==
  IF r.err # ErrNil THEN Return(r.err, << >>)
  ELSE IF r.status >= 500 THEN Retry
  ELSE IF r.status # 201
  THEN Return(Errorf("unknown status code received: ", r.status), << >>)
  ELSE Return(ErrNil, << >>)

StoreOutcome(r) ==
  IF r.err # ErrNil THEN Return(r.err, << >>)
  ELSE IF r.status # 201
  THEN Return(Errorf("unknown status code received: ", r.status), << >>)
  ELSE Return(ErrNil, << >>)

\* A Load without the 404 case.
LoadOutcomeNo404(r) ==
  IF r.err # ErrNil THEN Return(r.err, << >>)
  ELSE IF r.status # 200
  THEN Return(Errorf("unknown status code received: ", r.status), << >>)
  ELSE
    LET loadResp == JsonDecode(r.body, LoadResponse)
        valueDec == B64Decode(loadResp.val.value)
    IN  IF ~ loadResp.ok THEN Return(ErrDecode, << >>)
        ELSE IF ~ valueDec.ok THEN Return(ErrDecode, << >>)
        ELSE Return(ErrNil, valueDec.bytes)

LoadOutcome(r) ==
  IF r.err # ErrNil THEN Return(r.err, << >>)
  ELSE IF r.status = 404 THEN Return(ErrNotExist, << >>)
  ELSE IF r.status # 200
  THEN Return(Errorf("unknown status code received: ", r.status), << >>)
  ELSE
    LET loadResp == JsonDecode(r.body, LoadResponse)
        valueDec == B64Decode(loadResp.val.value)
    IN  IF ~ loadResp.ok THEN Return(ErrDecode, << >>)
        ELSE IF ~ valueDec.ok THEN Return(ErrDecode, << >>)
        ELSE Return(ErrNil, valueDec.bytes)

\* A Delete that reports every status but 204 as "not found".
DeleteOutcomeLoose(r) ==
  IF r.err # ErrNil THEN Return(r.err, << >>)
  ELSE IF r.status # 204 THEN Return(ErrNotExist, << >>)
  ELSE Return(ErrNil, << >>)

DeleteOutcome(r) ==
  IF r.err # ErrNil THEN Return(r.err, << >>)
  ELSE IF r.status = 404 THEN Return(ErrNotExist, << >>)
  ELSE IF r.status # 204
  THEN Return(Errorf("unknown status code received: ", r.status), << >>)
  ELSE Return(ErrNil, << >>)

\* An Exists that reads the body whatever the status.
ExistsOutcomeAnyStatus(r) ==
  IF r.err # ErrNil THEN Return(ErrNil, FALSE)
  ELSE
    LET existsResp == JsonDecode(r.body, ExistsResponse)
    IN  IF ~ existsResp.ok THEN Return(ErrNil, FALSE)
        ELSE Return(ErrNil, existsResp.val.exists)

\* Exists has no error result: err is always nil, val is the boolean.
ExistsOutcome(r) ==
  IF r.err # ErrNil THEN Return(ErrNil, FALSE)
  ELSE IF r.status # 200 THEN Return(ErrNil, FALSE)
  ELSE
    LET existsResp == JsonDecode(r.body, ExistsResponse)
    IN  IF ~ existsResp.ok THEN Return(ErrNil, FALSE)
        ELSE Return(ErrNil, existsResp.val.exists)

\* The keys of a sequence without those that occurred before.
RECURSIVE DropRepeats(_)
DropRepeats(keys) ==
  IF Len(keys) = 0 THEN << >>
  ELSE LET front == DropRepeats(SubSeq(keys, 1, Len(keys) - 1))
           last == keys[Len(keys)]
       IN  IF \E i \in 1 .. Len(front) : front[i] = last THEN front
           ELSE Append(front, last)

\* A List that returns every key once.
ListOutcomeDistinct(r) ==
  IF r.err # ErrNil THEN Return(r.err, << >>)
  ELSE IF r.status = 404 THEN Return(ErrNotExist, << >>)
  ELSE IF r.status # 200
  THEN Return(Errorf("unknown status code received: ", r.status), << >>)
  ELSE
    LET listResp == JsonDecode(r.body, ListResponse)
    IN  IF ~ listResp.ok THEN Return(ErrDecode, << >>)
        ELSE Return(ErrNil, DropRepeats(listResp.val.keys))

ListOutcome(r) ==
  IF r.err # ErrNil THEN Return(r.err, << >>)
  ELSE IF r.status = 404 THEN Return(ErrNotExist, << >>)
  ELSE IF r.status # 200
  THEN Return(Errorf("unknown status code received: ", r.status), << >>)
  ELSE
    LET listResp == JsonDecode(r.body, ListResponse)
    IN  IF ~ listResp.ok THEN Return(ErrDecode, << >>)
        ELSE Return(ErrNil, listResp.val.keys)

StatOutcome(r) ==
  IF r.err # ErrNil THEN Return(r.err, ZeroKeyInfo)
  ELSE IF r.status = 404 THEN Return(ErrNotExist, ZeroKeyInfo)
  ELSE IF r.status # 200
  THEN Return(Errorf("unknown status code received: ", r.status), ZeroKeyInfo)
  ELSE
    LET statResp   == JsonDecode(r.body, StatResponse)
        parsedTime == ParseRFC3339(statResp.val.modified)
    IN  IF ~ statResp.ok THEN Return(ErrDecode, ZeroKeyInfo)
        ELSE IF ~ parsedTime.ok THEN Return(ErrDecode, ZeroKeyInfo)
        ELSE Return(ErrNil,
                    [Key |-> statResp.val.key, Modified |-> parsedTime.t,
                     Size |-> statResp.val.size,
                     IsTerminal |-> statResp.val.isTerminal])

\* -------------------------------------------------------------------- state

Callers == 1 .. NumCallers

\* The caller of the specifications that follow one caller only: the first.
Client == CHOOSE c \in Callers : \A d \in Callers : c <= d

Keys == {"k1", "k2"}

\* The keys the callers of the lock specification contend for.
LockKeys == {"k1"}

\* The keys the caller of the scripted specification uses.
ScriptKeys == {"k1"}

Ops == {"Lock", "Unlock", "Store", "Load", "Delete", "Exists", "List", "Stat"}

\* The 48 bytes whose encoding is the alphabet itself, "ABC...+/": every
\* six bit group occurs in it.
AllSextets ==
  << 0, 16, 131, 16, 81, 135, 32, 146, 139, 48, 211, 143,
     65, 20, 147, 81, 85, 151, 97, 150, 155, 113, 215, 159,
     130, 24, 163, 146, 89, 167, 162, 154, 171, 178, 219, 175,
     195, 28, 179, 211, 93, 183, 227, 158, 187, 243, 223, 191 >>

\* Byte sequences: all of length up to MaxValLen over two bytes, and a few
\* longer ones with other bytes.
RECURSIVE SeqsUpTo(_, _)
SeqsUpTo(S, n) ==
  IF n = 0 THEN {<< >>}
  ELSE LET shorter == SeqsUpTo(S, n - 1)
       IN  shorter \cup {Append(q, x) : q \in {t \in shorter : Len(t) = n - 1}, x \in S}

Values ==
  SeqsUpTo({0, 255}, MaxValLen)
    \cup {<< 77, 97, 110 >>, << 250, 128, 7, 64, 191 >>, AllSextets}

VARIABLES
  locked,    \* the remote: the keys that are locked
  kv,        \* the remote: the stored text of each stored key
  pc,        \* per caller: "idle", "call" (about to call r.client), "resp"
             \* (r.client returned), "sleep" (in time.Sleep)
  op,        \* per caller: the operation of the current or last call
  arg,       \* per caller: its arguments (key or prefix, value, recursive)
  ctxDone,   \* per caller: whether the call's context is cancelled
  req,       \* per caller: the last request put on the wire
  resp,      \* per caller: what r.client returned last
  ret,       \* per caller: what the last finished call returned
  ncall,     \* per caller: calls of r.client made by the current call
  nsent,     \* per caller: requests the current call put on the wire
  nsleep,    \* per caller: sleeps the current call began
  waited,    \* per caller: seconds the current call has slept
  trace,     \* per caller: the results r.client gave the current call
  holds,     \* per caller: keys whose Lock returned nil and that the
             \* caller has not called Unlock on since
  cancelAt,  \* per caller: where the call stood when it was cancelled
  stored,    \* per key: the value of the last Store that returned nil,
             \* until a Delete of the key is called
  deleted,   \* keys whose Delete returned nil, until a Store is called
  storage,   \* the RestStorage r: its fields Endpoint and ApiKey
  setup      \* how far the host has set r up ("new", "unmarshalled",
             \* "provisioned", "validated"), what Validate returned, and
             \* what r was made from: the fields as first given, the
             \* Caddyfile block read, the fields when Provision began

vars == << locked, kv, pc, op, arg, ctxDone, req, resp, ret, ncall, nsent,
          nsleep, waited, trace, holds, cancelAt, stored, deleted, storage,
          setup >>

NoArg == [key |-> "", value |-> << >>, recursive |-> FALSE]
NoRet == [err |-> ErrNil, val |-> << >>]
NotCancelled == [at |-> "none", nsent |-> 0, nsleep |-> 0, waited |-> 0]
EmptyMap == [k \in {} |-> << >>]

\* "https://a" for short.
EndpointUrl == << "h", ":", "/", "/", "a" >>

\* The remote untouched and every caller idle.
InitCalls ==
  /\ locked = {}
  /\ kv = EmptyMap
  /\ pc = [c \in Callers |-> "idle"]
  /\ op = [c \in Callers |-> "none"]
  /\ arg = [c \in Callers |-> NoArg]
  /\ ctxDone = [c \in Callers |-> FALSE]
  /\ req = [c \in Callers |-> NoRequest]
  /\ resp = [c \in Callers |-> NoResult]
  /\ ret = [c \in Callers |-> NoRet]
  /\ ncall = [c \in Callers |-> 0]
  /\ nsent = [c \in Callers |-> 0]
  /\ nsleep = [c \in Callers |-> 0]
  /\ waited = [c \in Callers |-> 0]
  /\ trace = [c \in Callers |-> << >>]
  /\ holds = [c \in Callers |-> {}]
  /\ cancelAt = [c \in Callers |-> NotCancelled]
  /\ stored = EmptyMap
  /\ deleted = {}

\* The state of the set-up when r, made from fields given, has passed
\* Provision and Validate.
SetUp(given) ==
  [phase |-> "validated", err |-> Validated(Provisioned(given)),
   given |-> given, file |-> << >>, loaded |-> given]

\* The operations start from an r that the host has set up from a well
\* formed endpoint and a key.
Init ==
  /\ InitCalls
  /\ LET given == [Endpoint |-> EndpointUrl, ApiKey |-> << "s" >>]
     IN  storage = Provisioned(given) /\ setup = SetUp(given)

\* ----------------------------------------------------------------- callers

\* A caller enters operation o with arguments a and a live context.
Enter(c, o, a) ==
  /\ setup.phase = "validated" /\ setup.err = ErrNil
  /\ pc[c] = "idle"
  /\ pc' = [pc EXCEPT ![c] = "call"]
  /\ op' = [op EXCEPT ![c] = o]
  /\ arg' = [arg EXCEPT ![c] = a]
  /\ ctxDone' = [ctxDone EXCEPT ![c] = FALSE]
  /\ resp' = [resp EXCEPT ![c] = NoResult]
  /\ ret' = [ret EXCEPT ![c] = NoRet]
  /\ ncall' = [ncall EXCEPT ![c] = 0]
  /\ nsent' = [nsent EXCEPT ![c] = 0]
  /\ nsleep' = [nsleep EXCEPT ![c] = 0]
  /\ waited' = [waited EXCEPT ![c] = 0]
  /\ trace' = [trace EXCEPT ![c] = << >>]
  /\ cancelAt' = [cancelAt EXCEPT ![c] = NotCancelled]
  /\ UNCHANGED << locked, kv, req, storage, setup >>

Lock(c, k) ==
  /\ Enter(c, "Lock", [NoArg EXCEPT !.key = k])
  /\ UNCHANGED << holds, stored, deleted >>

\* A caller calls Unlock only on a key it holds, and no longer holds it
\* from then on.
Unlock(c, k) ==
  /\ k \in holds[c]
  /\ Enter(c, "Unlock", [NoArg EXCEPT !.key = k])
  /\ holds' = [holds EXCEPT ![c] = @ \ {k}]
  /\ UNCHANGED << stored, deleted >>

Store(c, k, v) ==
  /\ Enter(c, "Store", [NoArg EXCEPT !.key = k, !.value = v])
  /\ deleted' = deleted \ {k}
  /\ UNCHANGED << holds, stored >>

Load(c, k) ==
  /\ Enter(c, "Load", [NoArg EXCEPT !.key = k])
  /\ UNCHANGED << holds, stored, deleted >>

Delete(c, k) ==
  /\ Enter(c, "Delete", [NoArg EXCEPT !.key = k])
  /\ stored' = [x \in DOMAIN stored \ {k} |-> stored[x]]
  /\ UNCHANGED << holds, deleted >>

Exists(c, k) ==
  /\ Enter(c, "Exists", [NoArg EXCEPT !.key = k])
  /\ UNCHANGED << holds, stored, deleted >>

List(c, prefix, recursive) ==
  /\ Enter(c, "List", [NoArg EXCEPT !.key = prefix, !.recursive = recursive])
  /\ UNCHANGED << holds, stored, deleted >>

Stat(c, k) ==
  /\ Enter(c, "Stat", [NoArg EXCEPT !.key = k])
  /\ UNCHANGED << holds, stored, deleted >>

\* The request operation o makes of its arguments.
OpRequest(o, a) ==
  CASE o = "Lock"   -> LockRequest(a.key)
    [] o = "Unlock" -> UnlockRequest(a.key)
    [] o = "Store"  -> StoreRequest(a.key, a.value)
    [] o = "Load"   -> LoadRequest(a.key)
    [] o = "Delete" -> DeleteRequest(a.key)
    [] o = "Exists" -> ExistsRequest(a.key)
    [] o = "List"   -> ListRequest(a.key, a.recursive)
    [] o = "Stat"   -> StatRequest(a.key)

\* What operation o does with the transport's result.
OpOutcome(o, r) ==
  CASE o = "Lock"   -> LockOutcome(r)
    [] o = "Unlock" -> UnlockOutcome(r)
    [] o = "Store"  -> StoreOutcome(r)
    [] o = "Load"   -> LoadOutcome(r)
    [] o = "Delete" -> DeleteOutcome(r)
    [] o = "Exists" -> ExistsOutcome(r)
    [] o = "List"   -> ListOutcome(r)
    [] o = "Stat"   -> StatOutcome(r)

\* 0 for an error of the transport, the status code of a response.
ResultCode(r) == IF r.err # ErrNil THEN 0 ELSE r.status

\* The most a counter of the current call counts to and the most results
\* its trace keeps: what a call makes that is followed for MaxPolls
\* requests and then cancelled.  Only a call followed without end gets
\* beyond.
CountTo == MaxPolls + 1

\* One more on a counter of the current call.
Count(n) == IF n < CountTo THEN n + 1 ELSE n

\* Code added to the results of the current call: the last ones are kept.
Traced(t, code) ==
  IF Len(t) < CountTo THEN Append(t, code) ELSE Append(Tail(t), code)

\* Whether the request of caller c's call can be built.
RequestBuilt(c) ==
  NewRequestWithContext(storage.Endpoint, OpRequest(op[c], arg[c]).path).ok

\* r.client returns result r to caller c; sent tells whether a request went
\* out on the wire.  It comes that far only with a request built.
ClientReturns(c, r, sent) ==
  /\ RequestBuilt(c)
  /\ pc' = [pc EXCEPT ![c] = "resp"]
  /\ resp' = [resp EXCEPT ![c] = r]
  /\ ncall' = [ncall EXCEPT ![c] = Count(@)]
  /\ nsent' = [nsent EXCEPT ![c] = IF sent THEN Count(@) ELSE @]
  /\ req' = [req EXCEPT ![c] = IF sent THEN OpRequest(op[c], arg[c]) ELSE @]
  /\ trace' = [trace EXCEPT ![c] = Traced(@, ResultCode(r))]
  /\ UNCHANGED << op, arg, ctxDone, ret, nsleep, waited, holds, cancelAt,
                  stored, deleted, storage, setup >>

\* r.client with a request that could not be built: the error of
\* NewRequestWithContext is overwritten unread, req is nil, and
\* req.Header.Add dereferences it.  The goroutine panics; the call returns
\* nothing.
ClientPanics(c) ==
  /\ pc[c] = "call"
  /\ ~ RequestBuilt(c)
  /\ pc' = [pc EXCEPT ![c] = "panic"]
  /\ UNCHANGED << locked, kv, op, arg, ctxDone, req, resp, ret, ncall, nsent,
                  nsleep, waited, trace, holds, cancelAt, stored, deleted,
                  storage, setup >>

\* r.client with a context that is done: the context's error, nothing sent.
ClientAbort(c) ==
  /\ pc[c] = "call"
  /\ ClientAborts(ctxDone[c])
  /\ ClientReturns(c, Failure(ErrCanceled), FALSE)
  /\ UNCHANGED << locked, kv >>

\* The handler's step after r.client returned: it returns to its caller or
\* starts to sleep.  A Lock that returns nil makes its caller the holder; a
\* Store that returns nil is the key's last successful Store, a Delete that
\* returns nil its last successful Delete.
Handle(c) ==
  /\ pc[c] = "resp"
  /\ LET out == OpOutcome(op[c], resp[c])
         k == arg[c].key
         done == out.next = "return"
         ok == done /\ out.err = ErrNil
     IN  /\ pc' = [pc EXCEPT ![c] = IF done THEN "idle" ELSE "sleep"]
         /\ ret' = [ret EXCEPT ![c] =
                      IF done THEN [err |-> out.err, val |-> out.val] ELSE @]
         /\ nsleep' = [nsleep EXCEPT ![c] = IF done THEN @ ELSE Count(@)]
         /\ holds' = [holds EXCEPT ![c] =
                        IF ok /\ op[c] = "Lock" THEN @ \cup {k} ELSE @]
         /\ stored' = IF ok /\ op[c] = "Store"
                      THEN [x \in DOMAIN stored \cup {k} |->
                              IF x = k THEN arg[c].value ELSE stored[x]]
                      ELSE stored
         /\ deleted' = IF ok /\ op[c] = "Delete" THEN deleted \cup {k}
                       ELSE deleted
  /\ UNCHANGED << locked, kv, op, arg, ctxDone, req, resp, ncall, nsent,
                  waited, trace, cancelAt, storage, setup >>

\* time.Sleep(5 * time.Second) is over: back to the top of the loop.
Wake(c) ==
  /\ pc[c] = "sleep"
  /\ pc' = [pc EXCEPT ![c] = "call"]
  /\ waited' = [waited EXCEPT ![c] =
                  IF @ < CountTo * SleepSeconds THEN @ + SleepSeconds ELSE @]
  /\ UNCHANGED << locked, kv, op, arg, ctxDone, req, resp, ret, ncall, nsent,
                  nsleep, trace, holds, cancelAt, stored, deleted, storage,
                  setup >>

\* The caller's context is cancelled while the call is between two steps.
Cancel(c) ==
  /\ pc[c] # "idle"
  /\ ~ ctxDone[c]
  /\ ctxDone' = [ctxDone EXCEPT ![c] = TRUE]
  /\ cancelAt' = [cancelAt EXCEPT ![c] =
                    [at |-> pc[c], nsent |-> nsent[c], nsleep |-> nsleep[c],
                     waited |-> waited[c]]]
  /\ UNCHANGED << locked, kv, pc, op, arg, req, resp, ret, ncall, nsent,
                  nsleep, waited, trace, holds, stored, deleted, storage,
                  setup >>

\* ---------------------------------------------------------------- remotes

\* Timestamp texts: "2024-02-29T23:59:00Z" and others, valid and not.
TimeLeapDay ==
  << "2","0","2","4","-","0","2","-","2","9","T","2","3",":","5","9",":",
     "0","0","Z" >>
TimeWithOffset ==
  << "2","0","2","3","-","1","1","-","0","5","T","0","8",":","3","0",":",
     "1","5",".","2","5","-","0","7",":","3","0" >>
TimeNoLeapDay ==
  << "2","0","2","3","-","0","2","-","2","9","T","2","3",":","5","9",":",
     "0","0","Z" >>
TimeNoZone ==
  << "2","0","2","4","-","0","2","-","2","9","T","2","3",":","5","9",":",
     "0","0" >>
TimeUnix == << "1","7","0","9","2","4","9","9","4","0" >>

\* The remote that keeps its side of the wire contract.  It answers request
\* rq in state (L: locked keys, S: stored texts) with one of these: the
\* state it moves to and its response.
\*   lock:   201 and the key locked when it was not, 423 when it was;
\*   unlock: 204 and the key unlocked when it was locked, 404 otherwise;
\*   store:  201 and the text kept, or a refusal (500) that keeps nothing;
\*   load:   200 with the text, 404 for a key not stored;
\*   delete: 204 and the key removed, 404 for a key not stored;
\*   exists: 200 with the answer, or 404 for a key not stored;
\*   stat:   200 with the key's metadata, 404 for a key not stored.
RemoteAnswers(rq, L, S) ==
  LET k == rq.payload.key.v
      same(r) == {[locked |-> L, kv |-> S, resp |-> r]}
  IN
  CASE rq.path = "lock" ->
         IF k \in L THEN same(Response(423, BodyEmpty))
         ELSE {[locked |-> L \cup {k}, kv |-> S,
                resp |-> Response(201, BodyEmpty)]}
    [] rq.path = "unlock" ->
         IF k \in L
         THEN {[locked |-> L \ {k}, kv |-> S, resp |-> Response(204, BodyEmpty)]}
         ELSE same(Response(404, BodyEmpty))
    [] rq.path = "store" ->
         {[locked |-> L,
           kv |-> [x \in DOMAIN S \cup {k} |->
                     IF x = k THEN rq.payload.value.v ELSE S[x]],
           resp |-> Response(201, BodyEmpty)]}
         \cup same(Response(500, BodyEmpty))
    [] rq.path = "load" ->
         IF k \in DOMAIN S
         THEN same(Response(200, JsonObject([value |-> JString(S[k])])))
         ELSE same(Response(404, BodyEmpty))
    [] rq.path = "delete" ->
         IF k \in DOMAIN S
         THEN {[locked |-> L, kv |-> [x \in DOMAIN S \ {k} |-> S[x]],
                resp |-> Response(204, BodyEmpty)]}
         ELSE same(Response(404, BodyEmpty))
    [] rq.path = "exists" ->
         IF k \in DOMAIN S
         THEN same(Response(200, JsonObject([exists |-> JBool(TRUE)])))
         ELSE same(Response(200, JsonObject([exists |-> JBool(FALSE)])))
              \cup same(Response(404, BodyEmpty))
    [] rq.path = "stat" ->
         IF k \in DOMAIN S
         THEN same(Response(200, JsonObject(
                [key |-> JString(k), modified |-> JString(TimeLeapDay),
                 size |-> JNumber(Len(B64Decode(S[k]).bytes)),
                 isTerminal |-> JBool(TRUE)])))
         ELSE same(Response(404, BodyEmpty))

\* r.client on a reliable network against that remote: the request is
\* sent, the remote applies it and its response comes back.
ClientExchange(c) ==
  /\ pc[c] = "call"
  /\ ~ ClientAborts(ctxDone[c])
  /\ \E a \in RemoteAnswers(OpRequest(op[c], arg[c]), locked, kv) :
       /\ locked' = a.locked
       /\ kv' = a.kv
       /\ ClientReturns(c, a.resp, TRUE)

\* The same, for as long as the model follows the call.
ClientRemote(c) ==
  /\ ncall[c] < MaxPolls
  /\ ClientExchange(c)

\* The status codes a scripted remote answers with.
Statuses == {200, 201, 204, 404, 412, 423, 500}

\* The bodies a scripted remote answers operation o with, in a sequence.
StatBody(modified) ==
  JsonObject([key |-> JString("k1"), modified |-> JString(modified),
              size |-> JNumber(3), isTerminal |-> JBool(TRUE)])

ScriptedBodies(o) ==
  CASE o = "Load" ->
         << BodyEmpty, BodyMalformed, JsonObject(<< >>),
            JsonObject([value |-> JString(B64Encode(<< 77, 97 >>))]),
            JsonObject([value |-> JString(<< "T", "W", "E" >>)]),
            JsonObject([value |-> JString(<< "T", "W", "!", "=" >>)]),
            JsonObject([value |-> JNumber(7)]),
            JsonObjectThenText([value |-> JString(B64Encode(<< 77, 97 >>))]) >>
    [] o = "Exists" ->
         << BodyEmpty, BodyMalformed, JsonObject(<< >>),
            JsonObject([exists |-> JBool(TRUE)]),
            JsonObject([exists |-> JBool(FALSE)]),
            JsonObject([exists |-> JString(<< "t", "r", "u", "e" >>)]) >>
    [] o = "List" ->
         << BodyEmpty, BodyMalformed, JsonObject(<< >>),
            JsonObject([keys |-> JArray(<< >>)]),
            JsonObject([keys |-> JArray(<< "b/x", "a", "b/x", "zz/y/w" >>)]),
            JsonObject([keys |-> JArray(<< "a", "b/x" >>)]),
            JsonObject([keys |-> JString(<< "a" >>)]),
            JsonObjectThenText([keys |-> JArray(<< "a", "b/x" >>)]) >>
    [] o = "Stat" ->
         << BodyEmpty, BodyMalformed, JsonObject(<< >>),
            StatBody(TimeLeapDay), StatBody(TimeWithOffset),
            StatBody(TimeNoLeapDay), StatBody(TimeNoZone), StatBody(TimeUnix),
            StatBody(<< >>),
            JsonObject([key |-> JString("k1"),
                        modified |-> JString(TimeLeapDay),
                        size |-> JString(<< "3" >>),
                        isTerminal |-> JBool(FALSE)]),
            JsonObjectThenText([key |-> JString("k1"),
                                modified |-> JString(TimeLeapDay),
                                size |-> JNumber(3),
                                isTerminal |-> JBool(TRUE)]) >>
    [] OTHER -> << BodyEmpty >>

\* r.client against a scripted remote, where anything may come back: a
\* failure of the transport (written as status 0 here), or any status with
\* any body.
ClientScripted(c) ==
  /\ pc[c] = "call"
  /\ ncall[c] < MaxPolls
  /\ ~ ClientAborts(ctxDone[c])
  /\ \E st \in Statuses \cup {0} : \E i \in DOMAIN ScriptedBodies(op[c]) :
       ClientReturns(c,
                     IF st = 0 THEN Failure(ErrTransport)
                     ELSE Response(st, ScriptedBodies(op[c])[i]),
                     TRUE)
  /\ UNCHANGED << locked, kv >>

\* ---------------------------------------------------------------- set-up

\* The variables of the remote and of the calls.
calls == << locked, kv, pc, op, arg, ctxDone, req, resp, ret, ncall, nsent,
           nsleep, waited, trace, holds, cancelAt, stored, deleted >>

\* The fields r may be given, by the JSON configuration or by a Caddyfile:
\* endpoints that are empty, a lone separator, a URL with and without the
\* separator at its end, a lone colon, and a URL with a line feed at its
\* end; keys that are empty, plain, and a placeholder of unknown name.
Endpoints ==
  {<< >>, << "/" >>, EndpointUrl, EndpointUrl \o << "/" >>, << ":" >>,
   EndpointUrl \o << "\n" >>}

ApiKeys == {<< >>, << "s" >>, << "{", "x", "}" >>}

Configs == [Endpoint : Endpoints, ApiKey : ApiKeys]

\* The lines of a Caddyfile block: a directive's name, alone or with one
\* argument.
DirectiveNames ==
  {<< "endpoint" >>, << "apikey" >>, << "apiKey" >>, << "ApiKey" >>,
   << "rest" >>}

DirectiveLines ==
  {<< n >> : n \in DirectiveNames}
    \cup {<< n, v >> : n \in DirectiveNames, v \in {EndpointUrl, << "s" >>}}

Files == SeqsUpTo(DirectiveLines, MaxDirectives)

\* A new RestStorage with the fields of the JSON configuration, if any.
InitSetup ==
  /\ InitCalls
  /\ \E given \in Configs :
       /\ storage = given
       /\ setup = [phase |-> "new", err |-> ErrNil, given |-> given,
                   file |-> << >>, loaded |-> given]

UnmarshalCaddyfile(file) ==
  /\ setup.phase = "new"
  /\ storage' = Unmarshalled(storage, file)
  /\ setup' = [setup EXCEPT !.phase = "unmarshalled", !.file = file]
  /\ UNCHANGED calls

Provision ==
  /\ setup.phase \in {"new", "unmarshalled"}
  /\ storage' = Provisioned(storage)
  /\ setup' = [setup EXCEPT !.phase = "provisioned", !.loaded = storage]
  /\ UNCHANGED calls

Validate ==
  /\ setup.phase = "provisioned"
  /\ setup' = [setup EXCEPT !.phase = "validated", !.err = Validated(storage)]
  /\ UNCHANGED << calls, storage >>

\* ------------------------------------------------- the unreliable network

\* The callers of the specifications that follow fewer of them (the
\* unreliable network, the calls followed without end): all but the last.
SomeCallers == {c \in Callers : c < NumCallers}

\* httpClient.Do puts the request on the wire: the remote applies it and its
\* response sets out (kept in resp while the call is in flight, pc
\* "flight"); Do has not returned yet.
ClientSend(c) ==
  /\ pc[c] = "call"
  /\ ncall[c] < MaxPolls
  /\ RequestBuilt(c)
  /\ ~ ClientAborts(ctxDone[c])
  /\ \E a \in RemoteAnswers(OpRequest(op[c], arg[c]), locked, kv) :
       /\ locked' = a.locked
       /\ kv' = a.kv
       /\ resp' = [resp EXCEPT ![c] = a.resp]
  /\ pc' = [pc EXCEPT ![c] = "flight"]
  /\ req' = [req EXCEPT ![c] = OpRequest(op[c], arg[c])]
  /\ nsent' = [nsent EXCEPT ![c] = Count(@)]
  /\ UNCHANGED << op, arg, ctxDone, ret, ncall, nsleep, waited, trace, holds,
                  cancelAt, stored, deleted, storage, setup >>

\* The response arrives: Do, and r.client with it, returns the response.
ClientReceive(c) ==
  /\ pc[c] = "flight"
  /\ ~ ctxDone[c]
  /\ ClientReturns(c, resp[c], FALSE)
  /\ UNCHANGED << locked, kv >>

\* The response is lost on its way: Do returns an error of the transport,
\* the remote having applied the request.
ClientLosesResponse(c) ==
  /\ pc[c] = "flight"
  /\ ~ ctxDone[c]
  /\ ClientReturns(c, Failure(ErrTransport), FALSE)
  /\ UNCHANGED << locked, kv >>

\* The request is lost on its way: the remote never sees it and Do returns
\* an error of the transport.
ClientLosesRequest(c) ==
  /\ pc[c] = "call"
  /\ ncall[c] < MaxPolls
  /\ ~ ClientAborts(ctxDone[c])
  /\ ClientReturns(c, Failure(ErrTransport), TRUE)
  /\ UNCHANGED << locked, kv >>

\* The context is cancelled while the request is in flight: Do returns the
\* context's error, whatever the remote did with the request.
ClientAbortInFlight(c) ==
  /\ pc[c] = "flight"
  /\ ctxDone[c]
  /\ ClientReturns(c, Failure(ErrCanceled), FALSE)
  /\ UNCHANGED << locked, kv >>

\* ----------------------------------------------------------- specifications

\* Callers locking and unlocking keys against the contract-keeping remote
\* over a reliable network.
NextLock ==
  \E c \in Callers : \E k \in LockKeys :
    \/ Lock(c, k)
    \/ Unlock(c, k)
    \/ ClientRemote(c)
    \/ Handle(c)
    \/ Wake(c)

SpecLock == Init /\ [][NextLock]_vars

\* One caller running every operation against a scripted remote, with
\* cancellation.
NextScript ==
  \E k \in ScriptKeys :
    \/ Lock(Client, k)
    \/ Unlock(Client, k)
    \/ \E v \in {<< >>, << 77, 97 >>} : Store(Client, k, v)
    \/ Load(Client, k)
    \/ Delete(Client, k)
    \/ Exists(Client, k)
    \/ \E rec \in BOOLEAN : List(Client, k, rec)
    \/ Stat(Client, k)
    \/ ClientScripted(Client)
    \/ ClientAbort(Client)
    \/ Handle(Client)
    \/ Wake(Client)
    \/ Cancel(Client)

SpecScript == Init /\ [][NextScript]_vars

\* One caller storing, loading and deleting against the contract-keeping
\* remote over a reliable network.
NextKV ==
  \E k \in Keys :
    \/ \E v \in Values : Store(Client, k, v)
    \/ Load(Client, k)
    \/ Delete(Client, k)
    \/ Exists(Client, k)
    \/ Stat(Client, k)
    \/ ClientRemote(Client)
    \/ Handle(Client)

SpecKV == Init /\ [][NextKV]_vars

\* Callers locking and unlocking a key against the contract-keeping remote
\* over a network that loses requests and responses.
NextNet ==
  \E c \in SomeCallers : \E k \in LockKeys :
    \/ Lock(c, k)
    \/ Unlock(c, k)
    \/ ClientSend(c)
    \/ ClientReceive(c)
    \/ ClientLosesResponse(c)
    \/ ClientLosesRequest(c)
    \/ Handle(c)
    \/ Wake(c)

SpecNet == Init /\ [][NextNet]_vars

\* The same with cancellation, before the request is sent, while it is in
\* flight and during the sleep.
NextNetCancel ==
  \/ NextNet
  \/ \E c \in SomeCallers :
       \/ ClientAbort(c)
       \/ ClientAbortInFlight(c)
       \/ Cancel(c)

SpecNetCancel == Init /\ [][NextNetCancel]_vars

\* Callers locking and unlocking a key against the contract-keeping remote
\* over a reliable network, their calls followed without end.  A call that
\* has begun goes on: its exchange with the remote ends, its result is
\* read, its sleep is over after five seconds.
NextLockForever ==
  \E c \in SomeCallers : \E k \in LockKeys :
    \/ Lock(c, k)
    \/ Unlock(c, k)
    \/ ClientExchange(c)
    \/ Handle(c)
    \/ Wake(c)

SpecLockForever ==
  /\ Init
  /\ [][NextLockForever]_vars
  /\ \A c \in SomeCallers : WF_vars(ClientExchange(c) \/ Handle(c) \/ Wake(c))

\* A caller that takes turns: it calls Lock on a key it does not hold.
LockInTurn(c, k) ==
  /\ k \notin holds[c]
  /\ Lock(c, k)

\* What caller c may do next.
CallerStep(c) ==
  \E k \in LockKeys :
    \/ LockInTurn(c, k)
    \/ Unlock(c, k)
    \/ ClientExchange(c)
    \/ Handle(c)
    \/ Wake(c)

\* Callers that lock the key, unlock it and begin again, against the
\* contract-keeping remote over a reliable network with no cancellation,
\* every caller going on for ever.
NextTakeTurns == \E c \in Callers : CallerStep(c)

SpecTakeTurns ==
  /\ Init
  /\ [][NextTakeTurns]_vars
  /\ \A c \in Callers : WF_vars(CallerStep(c))

\* The host setting r up: the Caddyfile block, if there is one, then
\* Provision, then Validate.
NextSetup ==
  \/ \E file \in Files : UnmarshalCaddyfile(file)
  \/ Provision
  \/ Validate

SpecSetup == InitSetup /\ [][NextSetup]_vars

\* One caller running every operation against a scripted remote on any r
\* that the set-up lets through.
InitTransport ==
  /\ InitCalls
  /\ \E given \in Configs :
       storage = Provisioned(given) /\ setup = SetUp(given)

NextTransport ==
  \/ NextScript
  \/ ClientPanics(Client)

SpecTransport == InitTransport /\ [][NextTransport]_vars

\* ------------------------------------------------------------------ claims

\* Caller c owns key k: it holds k, or its Lock of k has the remote's 201 in
\* hand, or it has called Unlock on k and the request is not yet applied.
Owns(c, k) ==
  \/ k \in holds[c]
  \/ /\ op[c] = "Lock" /\ arg[c].key = k /\ pc[c] = "resp"
     /\ resp[c].err = ErrNil /\ resp[c].status = 201
  \/ op[c] = "Unlock" /\ arg[c].key = k /\ pc[c] = "call"

\* C1: with the contract-keeping remote and a reliable network, at most one
\* caller at a time owns a key (is between the success of its Lock and the
\* remote's applying its Unlock), and the key is locked at the remote for as
\* long: no second Lock succeeds before the holder's Unlock is applied.
C1_MutualExclusion ==
  \A k \in Keys :
    /\ Cardinality({c \in Callers : Owns(c, k)}) <= 1
    /\ (\E c \in Callers : Owns(c, k)) => k \in locked

\* C1, its case: a caller holds the key after having met contention (423
\* first, 201 later), another caller's Unlock having returned nil.
C1_Witness ==
  \E c, d \in Callers :
    /\ c # d
    /\ "k1" \in holds[d] /\ op[d] = "Lock" /\ pc[d] = "idle"
    /\ Len(trace[d]) >= 2 /\ trace[d][1] = 423
    /\ op[c] = "Unlock" /\ pc[c] = "idle" /\ ret[c].err = ErrNil
    /\ ncall[c] = 1

\* Whether caller c runs a Lock that was cancelled during its sleep.
CancelledInSleep(c) == op[c] = "Lock" /\ cancelAt[c].at = "sleep"

\* C2: a Lock cancelled while it sleeps between two tries puts no further
\* request on the wire and begins no further sleep; it sleeps at most the
\* interval in progress to its end, the transport then returns the
\* context's error, and that error is what Lock returns.
C2_CancelledLockStops ==
  \A c \in Callers :
    CancelledInSleep(c) =>
      /\ nsent[c] = cancelAt[c].nsent
      /\ nsleep[c] = cancelAt[c].nsleep
      /\ waited[c] <= cancelAt[c].waited + SleepSeconds
      /\ ncall[c] <= nsent[c] + 1
      /\ pc[c] = "resp" => resp[c].err = ErrCanceled
      /\ pc[c] = "idle" => ret[c].err = ErrCanceled

\* C2, its case: a Lock cancelled in its second sleep has returned the
\* cancellation error.
C2_Witness ==
  /\ CancelledInSleep(Client) /\ pc[Client] = "idle"
  /\ ret[Client].err = ErrCanceled
  /\ trace[Client] = << 423, 412, 0 >>
  /\ nsent[Client] = 2 /\ waited[Client] = 2 * SleepSeconds

\* Whether every one of the first n codes of t is 423 or 412.
AllRetryable(t, n) == \A i \in 1 .. n : t[i] \in {423, 412}

\* C3: a Lock answered 423 or 412 n times and then 201 has returned nil
\* once the 201 is read, after n + 1 requests and n sleeps of 5 seconds; and
\* as long as it was answered nothing but 423 and 412 it has not returned:
\* it sleeps or is about to ask again, one sleep begun per answer.
C3_LockRetryLoop ==
  \A c \in Callers :
    (op[c] = "Lock" /\ pc[c] # "resp" /\ Len(trace[c]) >= 1) =>
      LET n == Len(trace[c]) - 1
      IN  /\ (AllRetryable(trace[c], n) /\ trace[c][n + 1] = 201) =>
                /\ pc[c] = "idle" /\ ret[c].err = ErrNil
                /\ ncall[c] = n + 1 /\ nsent[c] = n + 1
                /\ nsleep[c] = n /\ waited[c] = n * SleepSeconds
          /\ AllRetryable(trace[c], n + 1) =>
                /\ pc[c] \in {"sleep", "call"}
                /\ nsent[c] = n + 1 /\ nsleep[c] = n + 1
                /\ waited[c] = IF pc[c] = "sleep" THEN n * SleepSeconds
                               ELSE (n + 1) * SleepSeconds

\* C3, its case: 423, then 412, then 201.
C3_Witness ==
  /\ op[Client] = "Lock" /\ pc[Client] = "idle"
  /\ trace[Client] = << 423, 412, 201 >>
  /\ ret[Client].err = ErrNil /\ waited[Client] = 2 * SleepSeconds

\* C4: once Lock has read a failure of the transport or a status other than
\* 201, 423 and 412, it has returned: no sleep was begun for it and no
\* request follows; the error is the transport's own, or carries the status.
C4_LockFailsFast ==
  \A c \in Callers :
    (op[c] = "Lock" /\ pc[c] # "resp" /\ Len(trace[c]) >= 1) =>
      LET n == Len(trace[c])
          last == trace[c][n]
      IN  last \notin {201, 423, 412} =>
            /\ pc[c] = "idle"
            /\ ncall[c] = n /\ nsleep[c] = n - 1
            /\ waited[c] = (n - 1) * SleepSeconds
            /\ ret[c].err # ErrNil
            /\ ret[c].err = IF resp[c].err # ErrNil THEN resp[c].err
                            ELSE Errorf("Unknown status code received: ", last)
            /\ last # 0 => ret[c].err.code = resp[c].status

\* C4, its case: a 500 at the second try, and a transport failure.
C4_Witness ==
  /\ op[Client] = "Lock" /\ pc[Client] = "idle"
  /\ trace[Client] = << 423, 500 >>
  /\ ret[Client].err.kind = "errorf" /\ ret[Client].err.code = 500
  /\ nsleep[Client] = 1

\* C5: a Load of a key whose last successful Store stored V, no Delete of
\* the key having been called since, returns V and no error.
C5_StoreLoadRoundTrip ==
  \A c \in Callers :
    (op[c] = "Load" /\ pc[c] = "idle" /\ arg[c].key \in DOMAIN stored) =>
      /\ ret[c].err = ErrNil
      /\ ret[c].val = stored[arg[c].key]

\* C5, its case: a value of five bytes, whose text "+oAHQL8=" ends in
\* padding, loaded back while the other key holds the empty value.
C5_Witness ==
  /\ op[Client] = "Load" /\ pc[Client] = "idle" /\ arg[Client].key = "k1"
  /\ DOMAIN stored = {"k1", "k2"}
  /\ stored["k1"] = << 250, 128, 7, 64, 191 >>
  /\ stored["k2"] = << >>
  /\ ret[Client].err = ErrNil
  /\ ret[Client].val = << 250, 128, 7, 64, 191 >>
  /\ kv["k1"] = << "+", "o", "A", "H", "Q", "L", "8", "=" >>

\* C6: after a Delete of a key returned nil, and until a Store of the key is
\* called, Load and Stat of the key return fs.ErrNotExist and Exists
\* returns false.
C6_DeleteThenRead ==
  \A c \in Callers :
    (pc[c] = "idle" /\ arg[c].key \in deleted) =>
      /\ op[c] = "Load" => ret[c].err = ErrNotExist
      /\ op[c] = "Stat" => ret[c].err = ErrNotExist
      /\ op[c] = "Exists" => ret[c].val = FALSE

\* C6, its case: a Load of a deleted key has returned, the remote having
\* answered 404.
C6_Witness ==
  /\ op[Client] = "Load" /\ pc[Client] = "idle"
  /\ arg[Client].key \in deleted
  /\ resp[Client].status = 404
  /\ ret[Client].err = ErrNotExist

\* The statuses an operation's table maps.
StatusTable(o) ==
  CASE o = "Store" -> {201}
    [] o = "Delete" -> {204, 404}
    [] o \in {"Load", "List", "Stat"} -> {200, 404}
    [] OTHER -> {}

\* C7: Store, Load, Delete, List and Stat call the transport once, never
\* sleep and never call it again; a status outside the operation's table
\* comes back as the unknown-status error carrying that status.
C7_UnknownStatusSingleShot ==
  \A c \in Callers :
    op[c] \in {"Store", "Load", "Delete", "List", "Stat"} =>
      /\ pc[c] # "sleep" /\ nsleep[c] = 0
      /\ ncall[c] = (IF pc[c] = "call" THEN 0 ELSE 1)
      /\ nsent[c] <= 1
      /\ (pc[c] = "idle" /\ resp[c].err = ErrNil
            /\ resp[c].status \notin StatusTable(op[c])) =>
           ret[c].err =
             Errorf("unknown status code received: ", resp[c].status)

\* C7, its case: a Store answered 500.
C7_Witness ==
  /\ op[Client] = "Store" /\ pc[Client] = "idle"
  /\ resp[Client].err = ErrNil /\ resp[Client].status = 500
  /\ ret[Client].err.code = 500 /\ ncall[Client] = 1 /\ nsent[Client] = 1

\* C8: Load, Delete, List and Stat return fs.ErrNotExist exactly when a
\* response came back and its status is 404.
C8_NotFoundOnly404 ==
  \A c \in Callers :
    (op[c] \in {"Load", "Delete", "List", "Stat"} /\ pc[c] = "idle") =>
      (ret[c].err = ErrNotExist
         <=> (resp[c].err = ErrNil /\ resp[c].status = 404))

\* C8, its case: a Stat answered 404.
C8_Witness ==
  /\ op[Client] = "Stat" /\ pc[Client] = "idle"
  /\ resp[Client].err = ErrNil /\ resp[Client].status = 404
  /\ ret[Client].err = ErrNotExist

\* Whether result r is a 200 whose body is a JSON object with a boolean
\* field exists that is true.
SaysExists(r) ==
  /\ r.err = ErrNil /\ r.status = 200 /\ r.body.json = "object"
  /\ "exists" \in DOMAIN r.body.obj
  /\ r.body.obj["exists"].t = "bool"
  /\ r.body.obj["exists"].v

\* C9: Exists returns true exactly when the transport returned a 200 whose
\* body decodes with exists = true, and false in every other case.
C9_ExistsCollapsesFailures ==
  \A c \in Callers :
    (op[c] = "Exists" /\ pc[c] = "idle") =>
      /\ ret[c].err = ErrNil
      /\ ret[c].val \in BOOLEAN
      /\ ret[c].val <=> SaysExists(resp[c])

\* C9, its case: a 200 whose body is no JSON gives false.
C9_Witness ==
  /\ op[Client] = "Exists" /\ pc[Client] = "idle"
  /\ resp[Client].err = ErrNil /\ resp[Client].status = 200
  /\ resp[Client].body.json = "malformed"
  /\ ret[Client].val = FALSE

\* C10: Unlock calls the transport once and never sleeps; it returns nil
\* exactly when a response came back with status 204, the transport's error
\* when there is one, and an error carrying the status otherwise.
C10_UnlockSingleShot ==
  \A c \in Callers :
    op[c] = "Unlock" =>
      /\ pc[c] # "sleep" /\ nsleep[c] = 0
      /\ ncall[c] = (IF pc[c] = "call" THEN 0 ELSE 1)
      /\ nsent[c] <= 1
      /\ pc[c] = "idle" =>
           /\ ret[c].err = ErrNil
                <=> (resp[c].err = ErrNil /\ resp[c].status = 204)
           /\ resp[c].err # ErrNil => ret[c].err = resp[c].err
           /\ (resp[c].err = ErrNil /\ resp[c].status # 204) =>
                ret[c].err =
                  Errorf("unknown status code received: ", resp[c].status)

\* C10, its case: an Unlock answered 404 returns an error with that status.
C10_Witness ==
  /\ op[Client] = "Unlock" /\ pc[Client] = "idle"
  /\ resp[Client].err = ErrNil /\ resp[Client].status = 404
  /\ ret[Client].err.kind = "errorf" /\ ret[Client].err.code = 404
  /\ ncall[Client] = 1

\* C11: on a network that loses lock and unlock requests and responses, no
\* two callers hold the same key at once, and a key that a caller holds is
\* locked at the remote.
C11_ExclusionOnLossyNetwork ==
  \A k \in Keys :
    /\ Cardinality({c \in Callers : k \in holds[c]}) <= 1
    /\ (\E c \in Callers : k \in holds[c]) => k \in locked

\* C11, its case: a caller holds the key after another caller's Unlock lost
\* its response (the remote unlocked, the caller told of a transport error)
\* and after its own first Lock lost its request.
C11_Witness ==
  \E c, d \in Callers :
    /\ c # d
    /\ op[c] = "Unlock" /\ pc[c] = "idle" /\ ret[c].err = ErrTransport
    /\ nsent[c] = 1
    /\ "k1" \in holds[d] /\ pc[d] = "idle" /\ op[d] = "Lock"
    /\ ret[d].err = ErrNil /\ trace[d] = << 201 >>

\* Whether body b is valid JSON: one JSON value and nothing after it.
ValidJson(b) == b.json = "object"

\* Whether body b begins with an object whose field f is a string.
HasText(b, f) ==
  /\ b.json \in {"object", "objectThenText"}
  /\ f \in DOMAIN b.obj
  /\ b.obj[f].t = "string"

\* C12: on a 200 response, Load, List and Stat return an error when the
\* body is not valid JSON, Stat returns an error (with the zero KeyInfo, no
\* KeyInfo built from a zero time) when modified is not RFC3339 text, and
\* Load returns an error when value is not base64 text.
C12_DecodeFailuresFatal ==
  \A c \in Callers :
    (pc[c] = "idle" /\ resp[c].err = ErrNil /\ resp[c].status = 200) =>
      /\ (op[c] \in {"Load", "List", "Stat"} /\ ~ ValidJson(resp[c].body)) =>
           ret[c].err # ErrNil
      /\ (op[c] = "Stat" /\ HasText(resp[c].body, "modified")
            /\ ~ ParseRFC3339(resp[c].body.obj["modified"].v).ok) =>
           ret[c].err # ErrNil /\ ret[c].val = ZeroKeyInfo
      /\ (op[c] = "Load" /\ HasText(resp[c].body, "value")
            /\ ~ B64Decode(resp[c].body.obj["value"].v).ok) =>
           ret[c].err # ErrNil

\* C12, its case: a Load answered 200 with a JSON object followed by text
\* that is no JSON has returned the object's value and no error.
C12_Witness ==
  /\ op[Client] = "Load" /\ pc[Client] = "idle"
  /\ resp[Client].err = ErrNil /\ resp[Client].status = 200
  /\ resp[Client].body.json = "objectThenText"
  /\ ret[Client].err = ErrNil /\ ret[Client].val = << 77, 97 >>

\* C13: once Provision and Validate have run, Validate has returned an
\* error if the endpoint or the api key that r was configured with is
\* empty; the endpoint ends with "/" and a second Provision would leave it
\* as it is.
C13_RequiredConfiguration ==
  setup.phase = "validated" =>
    /\ (setup.loaded.Endpoint = << >> \/ setup.loaded.ApiKey = << >>) =>
         setup.err # ErrNil
    /\ HasSuffix(storage.Endpoint, << "/" >>)
    /\ Provisioned(storage).Endpoint = storage.Endpoint

\* C13, its case: r configured with an empty endpoint and a key has passed
\* Validate, its endpoint the separator alone.
C13_Witness ==
  /\ setup.phase = "validated"
  /\ setup.loaded = [Endpoint |-> << >>, ApiKey |-> << "s" >>]
  /\ setup.err = ErrNil
  /\ storage.Endpoint = << "/" >>

\* Whether result r is a 200 whose body begins with a JSON object with an
\* array keys.
HasKeys(r) ==
  /\ r.err = ErrNil /\ r.status = 200
  /\ r.body.json \in {"object", "objectThenText"}
  /\ "keys" \in DOMAIN r.body.obj
  /\ r.body.obj["keys"].t = "array"

\* C14: a List answered 200 with a body of keys returns that sequence of
\* keys as it stands, whatever the flag recursive, and no error; and the
\* request it sent is a POST to list with the prefix and the flag it was
\* called with.
C14_ListVerbatim ==
  \A c \in Callers :
    op[c] = "List" =>
      /\ (pc[c] = "idle" /\ HasKeys(resp[c])) =>
           /\ ret[c].err = ErrNil
           /\ ret[c].val = resp[c].body.obj["keys"].v
      /\ nsent[c] >= 1 =>
           /\ req[c].method = "POST" /\ req[c].path = "list"
           /\ req[c].payload.prefix = JString(arg[c].key)
           /\ req[c].payload.recursive = JBool(arg[c].recursive)

\* C14, its case: a List that is not recursive has returned the keys of
\* the body out of order, one of them twice, one outside the prefix and
\* nested.
C14_Witness ==
  /\ op[Client] = "List" /\ pc[Client] = "idle"
  /\ arg[Client].key = "k1" /\ arg[Client].recursive = FALSE
  /\ req[Client].payload.recursive = JBool(FALSE)
  /\ resp[Client].status = 200
  /\ ret[Client].err = ErrNil
  /\ ret[Client].val = << "b/x", "a", "b/x", "zz/y/w" >>

\* Whether caller c is in a Lock of key k that it called while holding k.
Reentered(c, k) ==
  /\ k \in holds[c]
  /\ op[c] = "Lock" /\ arg[c].key = k /\ pc[c] # "idle"

\* C15: a Lock of a key called by the caller that holds the key never
\* returns, with success or otherwise: each of its requests is answered
\* 423, and it goes on asking and sleeping for ever.
C15_NonReentrantLock ==
  /\ [][\A c \in SomeCallers : \A k \in LockKeys :
          Reentered(c, k) => Reentered(c, k)']_vars
  /\ [](\A c \in SomeCallers : \A k \in LockKeys :
          (Reentered(c, k) /\ pc[c] = "resp") =>
            resp[c] = Response(423, BodyEmpty))
  /\ \A c \in SomeCallers : \A k \in LockKeys :
       [](Reentered(c, k) =>
            []<>(pc[c] = "resp") /\ []<>(pc[c] = "sleep"))

\* C15, its case: the holder of the key is in a Lock of it, asleep after
\* more answers of 423 than the trace keeps.
C15_Witness ==
  \E c \in SomeCallers :
    /\ Reentered(c, "k1") /\ pc[c] = "sleep"
    /\ ncall[c] = CountTo /\ nsleep[c] = CountTo
    /\ \A i \in 1 .. Len(trace[c]) : trace[c][i] = 423

\* C16: on every r that the set-up lets through, a call of r.client ends by
\* returning a response or an error: no call is ended by the panic of a
\* request that is missing, whatever the endpoint.
C16_TransportAlwaysReturns == \A c \in Callers : pc[c] # "panic"

\* C16, its case: r was set up with the endpoint ":" and a key, Validate
\* returned nil, and the first Lock has panicked in r.client with nothing
\* returned and nothing sent.
C16_Witness ==
  /\ setup.given = [Endpoint |-> << ":" >>, ApiKey |-> << "s" >>]
  /\ setup.err = ErrNil
  /\ storage.Endpoint = << ":", "/" >>
  /\ op[Client] = "Lock" /\ pc[Client] = "panic"
  /\ ncall[Client] = 0 /\ nsent[Client] = 0 /\ resp[Client] = NoResult

\* Whether key k is in caller c's hands: c holds it, or the remote's 201 to
\* c's Lock is on its way or waits to be read, or c is in its Unlock of k.
InHand(c, k) ==
  \/ k \in holds[c]
  \/ /\ op[c] = "Lock" /\ arg[c].key = k /\ pc[c] \in {"flight", "resp"}
     /\ resp[c] = Response(201, BodyEmpty)
  \/ op[c] = "Unlock" /\ arg[c].key = k /\ pc[c] # "idle"

\* C17: on a network that loses requests and responses, and under
\* cancellation, a key that is locked at the remote is in some caller's
\* hands: no Lock that ends in an error leaves the key locked.
C17_NoOrphanedLock ==
  \A k \in locked : \E c \in Callers : InHand(c, k)

\* C17, its case: a Lock cancelled while its request was in flight has
\* returned the context's error, the remote having locked the key; no
\* caller holds the key and every caller is idle.
C17_Witness ==
  \E c \in Callers :
    /\ op[c] = "Lock" /\ pc[c] = "idle" /\ ret[c].err = ErrCanceled
    /\ cancelAt[c].at = "flight" /\ nsent[c] = 1
    /\ "k1" \in locked
    /\ \A d \in Callers : holds[d] = {} /\ pc[d] = "idle"

\* Whether caller c is in a Lock of key k.
Locking(c, k) == op[c] = "Lock" /\ arg[c].key = k /\ pc[c] # "idle"

\* C18 as stated: among callers that take turns, every caller that starts
\* a Lock of the key returns from it with success in the end.
C18_NoStarvation ==
  \A c \in Callers : \A k \in LockKeys :
    Locking(c, k) ~> (k \in holds[c])

\* C18 as it holds: a Lock is refused (423) only at a request that finds
\* the key locked, and in another caller's hands, and is granted (201) at
\* the first request that finds it unlocked; granted, it returns success; refused, it sleeps
\* and then asks again, and never gives up.  Which of the waiting callers
\* finds the key free is left to the timing of their requests.
C18_AcquiresWhenFree ==
  [][\A c \in Callers : \A k \in LockKeys :
       /\ (Locking(c, k) /\ pc[c] = "call" /\ pc'[c] # "call") =>
            /\ pc'[c] = "resp"
            /\ resp'[c] = IF k \in locked THEN Response(423, BodyEmpty)
                          ELSE Response(201, BodyEmpty)
            /\ k \in locked => \E d \in Callers \ {c} : InHand(d, k)
       /\ (Locking(c, k) /\ pc[c] = "resp" /\ pc'[c] # "resp") =>
            IF resp[c].status = 201
            THEN pc'[c] = "idle" /\ ret'[c].err = ErrNil /\ k \in holds'[c]
            ELSE pc'[c] = "sleep"
       /\ (Locking(c, k) /\ pc[c] = "sleep" /\ pc'[c] # "sleep") =>
            pc'[c] = "call"]_vars

\* C18, its case: a caller has been answered 423 more often than its trace
\* keeps while another caller holds the key after a third has unlocked it.
C18_Witness ==
  \E c, d, e \in Callers :
    /\ c # d /\ d # e /\ c # e
    /\ Locking(c, "k1") /\ pc[c] = "sleep" /\ nsleep[c] = CountTo
    /\ \A i \in 1 .. Len(trace[c]) : trace[c][i] = 423
    /\ "k1" \in holds[d]
    /\ op[e] = "Unlock" /\ pc[e] = "idle" /\ ret[e].err = ErrNil

\* What the directives of a Caddyfile block are said to make of r: each
\* line with an argument assigns it, to Endpoint under the name endpoint,
\* to ApiKey under the names apikey, apiKey and ApiKey; a line without
\* argument, or under another name, changes nothing.
RECURSIVE DirectivesAssigned(_, _)
DirectivesAssigned(r, file) ==
  IF Len(file) = 0 THEN r
  ELSE
    LET line == Head(file)
    IN  DirectivesAssigned(
          IF Len(line) < 2 THEN r
          ELSE IF line[1] = << "endpoint" >>
          THEN [r EXCEPT !.Endpoint = line[2]]
          ELSE IF line[1] \in {<< "apikey" >>, << "apiKey" >>, << "ApiKey" >>}
          THEN [r EXCEPT !.ApiKey = line[2]]
          ELSE r,
          Tail(file))

\* C19: after UnmarshalCaddyfile, the fields of r are what the directives
\* of the block assign: the argument of endpoint to Endpoint, the argument
\* of apikey, apiKey or ApiKey to ApiKey, nothing for a directive without
\* argument.
C19_CaddyfileDirectives ==
  setup.phase = "unmarshalled" =>
    storage = DirectivesAssigned(setup.given, setup.file)

\* C19, its case: the block "endpoint h://a" / "apikey s" read into an
\* empty r has set the endpoint and left the api key empty.
C19_Witness ==
  /\ setup.phase = "unmarshalled"
  /\ setup.given = [Endpoint |-> << >>, ApiKey |-> << >>]
  /\ setup.file = << << << "endpoint" >>, EndpointUrl >>,
                     << << "apikey" >>, << "s" >> >> >>
  /\ storage = [Endpoint |-> EndpointUrl, ApiKey |-> << >>]

====
